---------------------------- MODULE Spec2Model ----------------------------
(***************************************************************************)
(* Model of homework.py: a bot that polls the Practicum homework API and   *)
(* relays status changes and (de-duplicated) errors to a Telegram chat.    *)
(*                                                                         *)
(* Russian message texts of the source are transliterated to ASCII; each   *)
(* keeps the shape of the original (prefix, quoted key, embedded values).  *)
(***************************************************************************)
EXTENDS Integers, Sequences, FiniteSets, TLC

(***************************************************************************)
(* Bounds of the model.                                                    *)
(***************************************************************************)
\* Timestamps (time.time() at startup, "current_date" of the API) are 0..MaxDate.
MaxDate == 1
\* Records that may follow the first record of a "homeworks" list.
MaxOlder == 1

(***************************************************************************)
(* Program constants.                                                      *)
(***************************************************************************)
RETRY_PERIOD == 600
HTTP_OK == 200
ENDPOINT == "https://practicum.yandex.ru/api/user_api/homework_statuses/"

\* HOMEWORK_VERDICTS, as a function on its three keys.
HOMEWORK_VERDICTS ==
    [s \in {"approved", "reviewing", "rejected"} |->
        CASE s = "approved"  -> "Rabota proverena: revjueru vse ponravilos. Ura!"
          [] s = "reviewing" -> "Rabota vzyata na proverku revjuerom."
          [] s = "rejected"  -> "Rabota proverena: u revjuera est zamechaniya."]

(***************************************************************************)
(* Python values.                                                          *)
(***************************************************************************)
\* An optional string: None, or a str.
None == [some |-> FALSE, val |-> ""]
Some(s) == [some |-> TRUE, val |-> s]

\* An environment variable as os.getenv returns it: None when absent.
EnvValues == {None, Some(""), Some("secret")}

\* Python truthiness of an optional string: None and '' are falsy.
Truthy(v) == v.some /\ v.val # ""

\* Outcome of a call: an exception raised, or a value returned.
Raise(type, msg) == [raised |-> TRUE, type |-> type, msg |-> msg]
Return(v) == [raised |-> FALSE, value |-> v]

\* str(exception): KeyError shows the repr of its argument, the others the text.
ExcStr(r) == IF r.type = "KeyError" THEN "'" \o r.msg \o "'" ELSE r.msg

\* str.format of the dict {'from_date': timestamp}.
ParamsStr(timestamp) == "{'from_date': " \o ToString(timestamp) \o "}"

(***************************************************************************)
(* JSON values the API may answer with.                                    *)
(*   payload : ty is type(response).__name__; for a dict, keys is the set  *)
(*             of its keys among "homeworks" and "current_date".           *)
(*   homeworks field : ty and, for a list, its items.                      *)
(*   homework : ty and, for a dict, its keys among "homework_name" and     *)
(*             "status".  Absent fields hold a fixed filler value.         *)
(***************************************************************************)
Dates == 0..MaxDate
Names == {"hw1", "hw2"}
Statuses == {"approved", "reviewing", "rejected", "unknown_status"}

Homework(keys, name, status) ==
    [ty |-> "dict", keys |-> keys, homework_name |-> name, status |-> status]

DictHomeworks ==
    {Homework({"homework_name", "status"}, n, s) : n \in Names, s \in Statuses}
    \cup {Homework({"homework_name"}, n, "") : n \in Names}
    \cup {Homework({"status"}, "", s) : s \in Statuses}
    \cup {Homework({}, "", "")}

\* A list element that is no dict (a JSON number).
IntHomework == [ty |-> "int", keys |-> {}, homework_name |-> "", status |-> ""]

HomeworkValues == DictHomeworks \cup {IntHomework}


\* Older records of a "homeworks" list (the API answers most recent first).
OlderHomeworks == {Homework({"homework_name", "status"}, "hw2", "rejected")}

RECURSIVE OlderTails(_)
OlderTails(n) ==
    IF n = 0 THEN {<<>>}
    ELSE OlderTails(n - 1)
         \cup {Append(t, h) : t \in {u \in OlderTails(n - 1) : Len(u) = n - 1},
                              h \in OlderHomeworks}

HomeworkLists ==
    {<<>>} \cup {<<h>> \o t : h \in HomeworkValues, t \in OlderTails(MaxOlder)}

\* The value of the "homeworks" field: a list, or a value of another type.
ListField(items) == [ty |-> "list", items |-> items]
OtherField(ty) == [ty |-> ty, items |-> <<>>]
NoField == OtherField("absent")

Payload(ty, keys, homeworks, current_date) ==
    [ty |-> ty, keys |-> keys, homeworks |-> homeworks,
     current_date |-> current_date]

\* Payloads: "current_date" present or absent, "homeworks" a list, a value of
\* another type or absent; and payloads that are no dict at all.
DatedPayloads(field, fkeys) ==
    {Payload("dict", fkeys, field, 0)}
    \cup {Payload("dict", fkeys \cup {"current_date"}, field, d) : d \in Dates}

DictPayloads ==
    UNION {DatedPayloads(ListField(l), {"homeworks"}) : l \in HomeworkLists}
    \cup UNION {DatedPayloads(OtherField(t), {"homeworks"}) :
                    t \in {"dict", "NoneType"}}
    \cup DatedPayloads(NoField, {})

NonDictPayloads == {Payload(t, {}, NoField, 0) : t \in {"list", "NoneType"}}

Payloads == DictPayloads \cup NonDictPayloads

(***************************************************************************)
(* The upstream API as get_api_answer sees it: the transport fails, or a   *)
(* response arrives with a status code and a body that parses or not.      *)
(***************************************************************************)
TransportErrors == {"Read timed out."}
StatusCodes == {HTTP_OK, 500}
NoBody == Payload("NoneType", {}, NoField, 0)

Upstream(kind, error, status_code, json_ok, body) ==
    [kind |-> kind, error |-> error, status_code |-> status_code,
     json_ok |-> json_ok, body |-> body]

UpstreamOutcomes ==
    {Upstream("RequestException", e, 0, FALSE, NoBody) : e \in TransportErrors}
    \cup {Upstream("response", "", c, FALSE, NoBody) : c \in StatusCodes}
    \cup {Upstream("response", "", HTTP_OK, TRUE, p) : p \in Payloads}

(***************************************************************************)
(* The functions of homework.py.                                           *)
(***************************************************************************)
\* HEADERS, formatted: it embeds PRACTICUM_TOKEN.
HEADERS(token) ==
    "{'Authorization': 'OAuth " \o (IF token.some THEN token.val ELSE "None")
        \o "'}"

get_api_answer(timestamp, token, upstream) ==
    IF upstream.kind = "RequestException"
    THEN Raise("ConnectionError",
               "Oshibka pri zaprose k API " \o ENDPOINT \o " s parametrami "
               \o ParamsStr(timestamp) \o ". Oshibka: " \o upstream.error)
    ELSE IF upstream.status_code # HTTP_OK
    THEN Raise("ValueError",
               "Endpoint " \o ENDPOINT \o " nedostupen. Kod otveta API: "
               \o ToString(upstream.status_code) \o "\nParametry zaprosa: "
               \o ParamsStr(timestamp) \o "\nZagolovki zaprosa: "
               \o HEADERS(token))
    ELSE IF ~upstream.json_ok
    THEN Raise("JSONDecodeError", "Expecting value: line 1 column 1 (char 0)")
    ELSE Return(upstream.body)

\* check_response taking an empty list for an error.
check_response_rejects_empty(response) ==
    IF response.ty # "dict"
    THEN Raise("TypeError",
               "Otvet API dolzhen byt slovarem, poluchen " \o response.ty)
    ELSE IF "homeworks" \notin response.keys
    THEN Raise("KeyError", "Kluch \"homeworks\" otsutstvuet v otvete API")
    ELSE IF response.homeworks.ty # "list" \/ response.homeworks.items = <<>>
    THEN Raise("TypeError",
               "homeworks dolzhen byt spiskom, poluchen "
               \o response.homeworks.ty)
    ELSE Return(response.homeworks.items)

check_response(response) ==
    IF response.ty # "dict"
    THEN Raise("TypeError",
               "Otvet API dolzhen byt slovarem, poluchen " \o response.ty)
    ELSE IF "homeworks" \notin response.keys
    THEN Raise("KeyError", "Kluch \"homeworks\" otsutstvuet v otvete API")
    ELSE IF response.homeworks.ty # "list"
    THEN Raise("TypeError",
               "homeworks dolzhen byt spiskom, poluchen "
               \o response.homeworks.ty)
    ELSE Return(response.homeworks.items)

\* parse_status reading the name with homework.get('homework_name').
parse_status_get_name(homework) ==
    IF homework.ty # "dict"
    THEN Raise("TypeError",
               "argument of type '" \o homework.ty \o "' is not iterable")
    ELSE IF "status" \notin homework.keys
    THEN Raise("KeyError", "Kluch \"status\" otsutstvuet v otvete API")
    ELSE IF homework.status \notin DOMAIN HOMEWORK_VERDICTS
    THEN Raise("ValueError",
               "Neizvestnyi status raboty: " \o homework.status)
    ELSE Return("Izmenilsya status proverki raboty \""
                \o (IF "homework_name" \in homework.keys
                    THEN homework.homework_name ELSE "None") \o "\". "
                \o HOMEWORK_VERDICTS[homework.status])

\* parse_status raising the unknown-status ValueError without the value in it.
parse_status_bare_error(homework) ==
    IF homework.ty # "dict"
    THEN Raise("TypeError",
               "argument of type '" \o homework.ty \o "' is not iterable")
    ELSE IF "homework_name" \notin homework.keys
    THEN Raise("KeyError", "Kluch \"homework_name\" otsutstvuet v otvete API")
    ELSE IF "status" \notin homework.keys
    THEN Raise("KeyError", "Kluch \"status\" otsutstvuet v otvete API")
    ELSE IF homework.status \notin DOMAIN HOMEWORK_VERDICTS
    THEN Raise("ValueError", "Neizvestnyi status raboty")
    ELSE Return("Izmenilsya status proverki raboty \""
                \o homework.homework_name \o "\". "
                \o HOMEWORK_VERDICTS[homework.status])

\* parse_status reading the status with homework.get('status'): a record
\* without one goes on to the verdict lookup with None.
parse_status_get_status(homework) ==
    IF homework.ty # "dict"
    THEN Raise("TypeError",
               "argument of type '" \o homework.ty \o "' is not iterable")
    ELSE IF "homework_name" \notin homework.keys
    THEN Raise("KeyError", "Kluch \"homework_name\" otsutstvuet v otvete API")
    ELSE IF "status" \notin homework.keys
    THEN Raise("ValueError", "Neizvestnyi status raboty: None")
    ELSE IF homework.status \notin DOMAIN HOMEWORK_VERDICTS
    THEN Raise("ValueError",
               "Neizvestnyi status raboty: " \o homework.status)
    ELSE Return("Izmenilsya status proverki raboty \""
                \o homework.homework_name \o "\". "
                \o HOMEWORK_VERDICTS[homework.status])

parse_status(homework) ==
    IF homework.ty # "dict"
    THEN Raise("TypeError",
               "argument of type '" \o homework.ty \o "' is not iterable")
    ELSE IF "homework_name" \notin homework.keys
    THEN Raise("KeyError", "Kluch \"homework_name\" otsutstvuet v otvete API")
    ELSE IF "status" \notin homework.keys
    THEN Raise("KeyError", "Kluch \"status\" otsutstvuet v otvete API")
    ELSE IF homework.status \notin DOMAIN HOMEWORK_VERDICTS
    THEN Raise("ValueError",
               "Neizvestnyi status raboty: " \o homework.status)
    ELSE Return("Izmenilsya status proverki raboty \""
                \o homework.homework_name \o "\". "
                \o HOMEWORK_VERDICTS[homework.status])

\* check_tokens testing `value is None` instead of `not value`.
check_tokens_none_only(env) ==
    IF \E n \in DOMAIN env : ~env[n].some
    THEN Raise("MissingTokensError",
               "Otsutstvuyut obyazatelnye peremennye okruzheniya")
    ELSE Return(TRUE)

\* The names check_tokens finds missing, in the order of its dict.
missing_tokens(env) ==
    SelectSeq(<<"PRACTICUM_TOKEN", "TELEGRAM_TOKEN", "TELEGRAM_CHAT_ID">>,
              LAMBDA name : ~Truthy(env[name]))

check_tokens(env) ==
    IF missing_tokens(env) # <<>>
    THEN Raise("MissingTokensError",
               "Otsutstvuyut obyazatelnye peremennye okruzheniya")
    ELSE Return(TRUE)

\* response.get('current_date', default) that never finds the key.
get_current_date_never(response, default) == default

\* response.get('current_date', default)
get_current_date(response, default) ==
    IF "current_date" \in response.keys THEN response.current_date ELSE default

\* send_message catching telebot's ApiException only.
send_message_api_only(bot_outcome) ==
    IF bot_outcome = "ok" THEN Return(TRUE)
    ELSE IF bot_outcome = "ApiException" THEN Return(FALSE)
    ELSE Raise(bot_outcome, "bot.send_message failed")

\* send_message: what the bot call does decides the result.  The two exception
\* kinds of the except clause become False; any other exception propagates.
CaughtBotErrors == {"ApiException", "RequestException"}
send_message(bot_outcome) ==
    IF bot_outcome = "ok" THEN Return(TRUE)
    ELSE IF bot_outcome \in CaughtBotErrors THEN Return(FALSE)
    ELSE Raise(bot_outcome, "bot.send_message failed")

(***************************************************************************)
(* State.  main runs one cycle of its loop at a time: response, homeworks, *)
(* message and error are assigned before they are read in every cycle, so  *)
(* they are values of the cycle, not state that outlives it.               *)
(***************************************************************************)
VARIABLES
    env,                \* PRACTICUM_TOKEN, TELEGRAM_TOKEN, TELEGRAM_CHAT_ID
    pc,                 \* position of main
    exit_code,          \* argument of sys.exit, -1 while the process lives
    current_timestamp,  \* main's watermark
    last_error,         \* main's last reported error message, or None
    hist,               \* history: what the cycles did (not program state)
    fn_name,            \* a function called on its own, or "idle"
    fn_payload,         \* its argument, when it is check_response
    fn_homework,        \* its argument, when it is parse_status
    fn_result           \* what it returned or raised

main_vars == <<env, pc, exit_code, current_timestamp, last_error, hist>>
fn_vars == <<fn_name, fn_payload, fn_homework, fn_result>>
vars == <<main_vars, fn_vars>>

TokenNames == {"PRACTICUM_TOKEN", "TELEGRAM_TOKEN", "TELEGRAM_CHAT_ID"}

\* A local variable that was never assigned.
Unbound == Payload("unbound", {}, NoField, 0)
NoError == Raise("", "")

\* What the upstream gave a cycle, judged on the upstream's answer alone:
\*   "failed"   no payload (transport error, bad status, body that is no JSON)
\*   "invalid"  a payload that is no dict with a "homeworks" list, or whose
\*              first record is no dict with a name and a known status
\*   "empty"    a payload with an empty "homeworks" list
\*   "status"   a payload whose first record has a name and a known status
Answered(upstream) ==
    /\ upstream.kind = "response"
    /\ upstream.status_code = HTTP_OK
    /\ upstream.json_ok

HasList(p) ==
    /\ p.ty = "dict"
    /\ "homeworks" \in p.keys
    /\ p.homeworks.ty = "list"

HasValidFirst(p) ==
    /\ HasList(p)
    /\ p.homeworks.items # <<>>
    /\ LET h == p.homeworks.items[1]
       IN  /\ h.ty = "dict"
           /\ h.keys = {"homework_name", "status"}
           /\ h.status \in {"approved", "reviewing", "rejected"}

InputKind(upstream) ==
    IF ~Answered(upstream) THEN "failed"
    ELSE IF ~HasList(upstream.body) THEN "invalid"
    ELSE IF upstream.body.homeworks.items = <<>> THEN "empty"
    ELSE IF HasValidFirst(upstream.body) THEN "status"
    ELSE "invalid"

\* The upstream answered with a payload whose list begins with a record that
\* has a name and a status outside HOMEWORK_VERDICTS.
HasUnknownFirst(upstream) ==
    /\ Answered(upstream)
    /\ HasList(upstream.body)
    /\ upstream.body.homeworks.items # <<>>
    /\ LET first == upstream.body.homeworks.items[1]
       IN  /\ first.ty = "dict"
           /\ {"homework_name", "status"} \subseteq first.keys
           /\ first.status \notin {"approved", "reviewing", "rejected"}

\* What one cycle of the loop did.
\*   from_date     the watermark passed to get_api_answer (-1: no cycle)
\*   had_error     last_error was not None when the cycle began
\*   input         the InputKind of what the upstream gave ("none": no cycle)
\*   current_date  "current_date" of an "empty" or "status" payload, -1 if
\*                 it has none
\*   status_response   the payload of a "status" input, Unbound otherwise
\*   unknown_status    the payload's first record has a name and a status
\*                     that is no key of HOMEWORK_VERDICTS
\*   same_response ... and it equals the previous cycle's
\*   msg           the status message parse_status returned
\*   raised, err   the cycle reached the except clause; its error_message
\*   same_error    ... and the previous cycle raised with the same message
\*   err_was_last  ... and it was the last_error the cycle began with
\*   after         ... and the Outcome of the cycle before it
\*   logged        logging.error(error_message) was called
\*   status_sends, error_sends   calls of bot.send_message, by what was sent
\*   status_bot, error_bot       what the bot did in them ("none": no call)
NoCycle ==
    [from_date |-> -1, had_error |-> FALSE, input |-> "none", current_date |-> -1,
     status_response |-> Unbound, unknown_status |-> FALSE,
     same_response |-> FALSE, msg |-> None,
     raised |-> FALSE, err |-> None, same_error |-> FALSE,
     err_was_last |-> FALSE, after |-> "none", logged |-> FALSE,
     status_sends |-> 0, error_sends |-> 0,
     status_bot |-> "none", error_bot |-> "none"]

\* What is kept of the cycle before the last.
Summary(cyc) ==
    [status_sends |-> cyc.status_sends, error_sends |-> cyc.error_sends,
     err_was_last |-> cyc.err_was_last]

\* How a cycle ended, as the raising cycle after it records it.
Outcome(cyc) ==
    IF cyc.input = "none" THEN "none"
    ELSE IF cyc.raised
    THEN IF cyc.error_sends = 0 THEN "error suppressed"
         ELSE IF cyc.error_bot = "ok" THEN "error delivered"
         ELSE "error undelivered"
    ELSE IF cyc.status_sends = 0 THEN "nothing to send"
    ELSE IF cyc.status_bot = "ok" THEN "status delivered"
    ELSE "status undelivered"

\*   ever_*        get_api_answer, bot.send_message, time.sleep was ever called
\*   sleeps        sleeps since the last get_api_answer call (2: two or more)
\*   slept_for     the period of the last of them
\*   cur, prev     the last cycle run and, when it repeated the response or
\*                 the error of the cycle before it, a summary of that one
NoHistory ==
    [ever_fetch |-> FALSE, ever_send |-> FALSE, ever_sleep |-> FALSE,
     sleeps |-> 0, slept_for |-> 0, cur |-> NoCycle, prev |-> Summary(NoCycle)]

Min(a, b) == IF a <= b THEN a ELSE b

FnIdle ==
    /\ fn_name = "idle"
    /\ fn_payload = Unbound
    /\ fn_homework = IntHomework
    /\ fn_result = Return(FALSE)

(***************************************************************************)
(* The process before main runs: the environment is whatever it is.        *)
(***************************************************************************)
Init ==
    /\ env \in [TokenNames -> EnvValues]
    /\ pc = "start"
    /\ exit_code = -1
    /\ current_timestamp = 0
    /\ last_error = None
    /\ hist = NoHistory
    /\ FnIdle

(***************************************************************************)
(* main, lines 202-210: the credential check and the loop's initial state. *)
(***************************************************************************)
Startup ==
    /\ pc = "start"
    /\ IF check_tokens(env).raised
       THEN /\ pc' = "exited"
            /\ exit_code' = 1
            /\ UNCHANGED <<current_timestamp, last_error>>
       ELSE /\ pc' = "loop"
            /\ current_timestamp' \in Dates
            /\ last_error' = None
            /\ UNCHANGED exit_code
    /\ UNCHANGED <<env, hist, fn_vars>>

(***************************************************************************)
(* main, lines 213-218: the try block up to the status message.            *)
(* Where the block goes next, and what it assigned on the way.             *)
(***************************************************************************)
\* The try block testing len(homeworks) > 1 instead of `if homeworks`.
TryBlock_needs_two(timestamp, token, upstream) ==
    LET answer == get_api_answer(timestamp, token, upstream)
        checked == check_response(answer.value)
        parsed == parse_status(checked.value[1])
        Goes(to, resp, err, msg) ==
            [to |-> to, response |-> resp, error |-> err, message |-> msg]
    IN  IF answer.raised THEN Goes("except", Unbound, answer, None)
        ELSE IF checked.raised
        THEN Goes("except", answer.value, checked, None)
        ELSE IF Len(checked.value) <= 1
        THEN Goes("sleep", answer.value, NoError, None)
        ELSE IF parsed.raised
        THEN Goes("except", answer.value, parsed, None)
        ELSE Goes("send", answer.value, NoError, Some(parsed.value))

TryBlock(timestamp, token, upstream) ==
    LET answer == get_api_answer(timestamp, token, upstream)
        checked == check_response(answer.value)
        parsed == parse_status(checked.value[1])
        Goes(to, resp, err, msg) ==
            [to |-> to, response |-> resp, error |-> err, message |-> msg]
    IN  IF answer.raised THEN Goes("except", Unbound, answer, None)
        ELSE IF checked.raised
        THEN Goes("except", answer.value, checked, None)
        ELSE IF checked.value = <<>>
        THEN Goes("sleep", answer.value, NoError, None)
        ELSE IF parsed.raised
        THEN Goes("except", answer.value, parsed, None)
        ELSE Goes("send", answer.value, NoError, Some(parsed.value))

(***************************************************************************)
(* main, lines 219-224: after send_message(bot, message).  On success the  *)
(* watermark advances and the last error is forgotten.  An exception       *)
(* send_message lets through reaches the except clause of main.            *)
(***************************************************************************)
BotOutcomes == {"ok"} \cup CaughtBotErrors
AnyBotOutcomes == BotOutcomes \cup {"OtherException"}

\* A loop that keeps last_error across a delivered status message.
AfterStatusSend_keeps_error(sent, resp, timestamp, last) ==
    IF sent.raised
    THEN [to |-> "except", current_timestamp |-> timestamp, last_error |-> last]
    ELSE IF sent.value
    THEN [to |-> "sleep",
          current_timestamp |-> get_current_date(resp, timestamp),
          last_error |-> last]
    ELSE [to |-> "sleep", current_timestamp |-> timestamp, last_error |-> last]

\* A loop that does not test what send_message returned.
AfterStatusSend_ignores_result(sent, resp, timestamp, last) ==
    IF sent.raised
    THEN [to |-> "except", current_timestamp |-> timestamp, last_error |-> last]
    ELSE [to |-> "sleep",
          current_timestamp |-> get_current_date(resp, timestamp),
          last_error |-> None]

AfterStatusSend(sent, resp, timestamp, last) ==
    IF sent.raised
    THEN [to |-> "except", current_timestamp |-> timestamp, last_error |-> last]
    ELSE IF sent.value
    THEN [to |-> "sleep",
          current_timestamp |-> get_current_date(resp, timestamp),
          last_error |-> None]
    ELSE [to |-> "sleep", current_timestamp |-> timestamp, last_error |-> last]

(***************************************************************************)
(* main, lines 226-231: the except clause.  A new error message is logged, *)
(* sent and remembered; a repeated one is dropped.  An exception           *)
(* send_message lets through here leaves main.                             *)
(***************************************************************************)
ErrorMessage(exc) == "Sboi v rabote programmy: " \o ExcStr(exc)

\* The except clause without its comparison with last_error.
IsNewError_always(error_message, last) == TRUE

\* The except clause with its comparison turned round: only a repeated error
\* message is reported.
IsNewError_inverted(error_message, last) == Some(error_message) = last

IsNewError(error_message, last) == Some(error_message) # last

\* The cycle's end: main is at `to` with the watermark and the last error as
\* given, and the cycle `cyc` is on record.
EndCycle(to, timestamp, last, cyc) ==
    /\ pc' = to
    /\ current_timestamp' = timestamp
    /\ last_error' = last
    /\ hist' = [hist EXCEPT
            !.ever_fetch = TRUE,
            !.ever_send = @ \/ cyc.status_sends + cyc.error_sends > 0,
            !.sleeps = 0,
            !.prev = IF cyc.same_response \/ cyc.same_error
                     THEN Summary(hist.cur) ELSE Summary(NoCycle),
            !.cur = cyc]

\* An except clause that catches ValueError only: anything else leaves main.
ExceptClause_value_errors(exc, outcomes, cyc) ==
    LET error_message == ErrorMessage(exc)
        seen == [cyc EXCEPT !.raised = TRUE, !.err = Some(error_message)]
    IN  IF exc.type # "ValueError"
        THEN EndCycle("crashed", current_timestamp, last_error, seen)
        ELSE EndCycle("sleep", current_timestamp, Some(error_message), seen)

\* A loop whose sleep is on the success path only: after the except clause
\* the next cycle starts at once.
ExceptClause_no_sleep(exc, outcomes, cyc) ==
    LET error_message == ErrorMessage(exc)
        seen == [cyc EXCEPT !.raised = TRUE, !.err = Some(error_message)]
    IN  EndCycle("loop", current_timestamp, Some(error_message), seen)

\* An except clause that remembers the error message only when it was
\* delivered.
ExceptClause_remember_delivered(exc, outcomes, cyc) ==
    LET error_message == ErrorMessage(exc)
        seen == [cyc EXCEPT
                    !.raised = TRUE,
                    !.err = Some(error_message),
                    !.same_error = hist.cur.err = Some(error_message),
                    !.err_was_last = last_error = Some(error_message),
                    !.after = Outcome(hist.cur)]
    IN  IF IsNewError(error_message, last_error)
        THEN \E bot_outcome \in outcomes :
                LET sent == send_message(bot_outcome)
                    done == [seen EXCEPT !.logged = TRUE,
                                         !.error_sends = @ + 1,
                                         !.error_bot = bot_outcome]
                IN  IF sent.raised
                    THEN EndCycle("crashed", current_timestamp, last_error,
                                  done)
                    ELSE EndCycle("sleep", current_timestamp,
                                  IF sent.value THEN Some(error_message)
                                  ELSE last_error, done)
        ELSE EndCycle("sleep", current_timestamp, last_error, seen)

ExceptClause(exc, outcomes, cyc) ==
    LET error_message == ErrorMessage(exc)
        seen == [cyc EXCEPT
                    !.raised = TRUE,
                    !.err = Some(error_message),
                    !.same_error = hist.cur.err = Some(error_message),
                    !.err_was_last = last_error = Some(error_message),
                    !.after = Outcome(hist.cur)]
    IN  IF IsNewError(error_message, last_error)
        THEN \E bot_outcome \in outcomes :
                LET sent == send_message(bot_outcome)
                    done == [seen EXCEPT !.logged = TRUE,
                                         !.error_sends = @ + 1,
                                         !.error_bot = bot_outcome]
                IN  IF sent.raised
                    THEN EndCycle("crashed", current_timestamp, last_error,
                                  done)
                    ELSE EndCycle("sleep", current_timestamp,
                                  Some(error_message), done)
        ELSE EndCycle("sleep", current_timestamp, last_error, seen)

(***************************************************************************)
(* main, lines 213-231: one cycle of the loop, up to its sleep.            *)
(***************************************************************************)
Cycle(upstreams, outcomes) ==
    /\ pc = "loop"
    /\ \E upstream \in upstreams :
        LET t == TryBlock(current_timestamp, env["PRACTICUM_TOKEN"], upstream)
            kind == InputKind(upstream)
            cyc == [NoCycle EXCEPT
                        !.from_date = current_timestamp,
                        !.had_error = last_error # None,
                        !.input = kind,
                        !.current_date =
                            IF /\ kind \in {"empty", "status"}
                               /\ "current_date" \in upstream.body.keys
                            THEN upstream.body.current_date ELSE -1,
                        !.status_response =
                            IF kind = "status" THEN upstream.body ELSE Unbound,
                        !.unknown_status = HasUnknownFirst(upstream),
                        !.same_response =
                            /\ kind = "status"
                            /\ upstream.body = hist.cur.status_response,
                        !.msg = t.message]
        IN  CASE t.to = "sleep" ->
                    EndCycle("sleep", current_timestamp, last_error, cyc)
              [] t.to = "except" ->
                    ExceptClause(t.error, outcomes, cyc)
              [] t.to = "send" ->
                    \E bot_outcome \in outcomes :
                        LET sent == send_message(bot_outcome)
                            a == AfterStatusSend(sent, t.response,
                                                 current_timestamp, last_error)
                            tried == [cyc EXCEPT !.status_sends = @ + 1,
                                                 !.status_bot = bot_outcome]
                        IN  IF a.to = "except"
                            THEN ExceptClause(sent, outcomes, tried)
                            ELSE EndCycle(a.to, a.current_timestamp,
                                          a.last_error, tried)
    /\ UNCHANGED <<env, exit_code, fn_vars>>

(***************************************************************************)
(* main, line 233: time.sleep(RETRY_PERIOD), then the next cycle.          *)
(***************************************************************************)
SleepPeriod == RETRY_PERIOD

Sleep ==
    /\ pc = "sleep"
    /\ pc' = "loop"
    /\ hist' = [hist EXCEPT
            !.ever_sleep = TRUE,
            !.sleeps = Min(@ + 1, 2),
            !.slept_for = SleepPeriod]
    /\ UNCHANGED <<env, exit_code, current_timestamp, last_error, fn_vars>>

(***************************************************************************)
(* The program.  In Spec the bot fails only in the two ways send_message   *)
(* catches (the failure modes of the messaging collaborator); in           *)
(* SpecAnyBot it may fail in any other way too.                            *)
(***************************************************************************)
PollCycle == Cycle(UpstreamOutcomes, BotOutcomes)

Next ==
    \/ Startup
    \/ PollCycle
    \/ Sleep

Spec == Init /\ [][Next]_vars

PollCycleAnyBot == Cycle(UpstreamOutcomes, AnyBotOutcomes)

NextAnyBot ==
    \/ Startup
    \/ PollCycleAnyBot
    \/ Sleep

SpecAnyBot == Init /\ [][NextAnyBot]_vars

(***************************************************************************)
(* The program under fairness, for what it does eventually.  main is       *)
(* sequential code: whatever step it is at, it takes it (the calls it      *)
(* makes return, time.sleep returns after the period).  The upstream       *)
(* answers with a sample of its outcomes: every outcome without a payload, *)
(* and the payloads with at most one record, named "hw1" if named, and     *)
(* with "current_date", if they have it, at MaxDate.                       *)
(***************************************************************************)
SamplePayloads ==
    {p \in Payloads :
        /\ Len(p.homeworks.items) <= 1
        /\ \A i \in DOMAIN p.homeworks.items :
              p.homeworks.items[i].homework_name \in {"", "hw1"}
        /\ "current_date" \in p.keys => p.current_date = MaxDate}

UpstreamSamples ==
    {u \in UpstreamOutcomes : Answered(u) => u.body \in SamplePayloads}

PollCycleSampled == Cycle(UpstreamSamples, BotOutcomes)

NextSampled ==
    \/ Startup
    \/ PollCycleSampled
    \/ Sleep

FairSpec == Init /\ [][NextSampled]_vars /\ WF_vars(NextSampled)

(***************************************************************************)
(* check_response and parse_status called on their own, on every payload   *)
(* and every record.                                                       *)
(***************************************************************************)
FnInit ==
    /\ env = [n \in TokenNames |-> Some("secret")]
    /\ pc = "start"
    /\ exit_code = -1
    /\ current_timestamp = 0
    /\ last_error = None
    /\ hist = NoHistory
    /\ FnIdle

CallCheckResponse ==
    /\ fn_name = "idle"
    /\ \E p \in Payloads :
        /\ fn_payload' = p
        /\ fn_result' = check_response(p)
    /\ fn_name' = "check_response"
    /\ UNCHANGED <<fn_homework, main_vars>>

CallParseStatus ==
    /\ fn_name = "idle"
    /\ \E h \in HomeworkValues :
        /\ fn_homework' = h
        /\ fn_result' = parse_status(h)
    /\ fn_name' = "parse_status"
    /\ UNCHANGED <<fn_payload, main_vars>>

FnReturn ==
    /\ fn_name # "idle"
    /\ fn_name' = "idle"
    /\ fn_payload' = Unbound
    /\ fn_homework' = IntHomework
    /\ fn_result' = Return(FALSE)
    /\ UNCHANGED main_vars

FnNext == CallCheckResponse \/ CallParseStatus \/ FnReturn

FnSpec == FnInit /\ [][FnNext]_vars

(***************************************************************************)
(* Properties.                                                             *)
(***************************************************************************)
Running == pc \in {"loop", "sleep"}
CycleDone == pc = "sleep"
NoCalls == ~hist.ever_fetch /\ ~hist.ever_send /\ ~hist.ever_sleep
EmptyOrAbsent(v) == v = None \/ v = Some("")
SomeCredentialMissing == \E n \in TokenNames : EmptyOrAbsent(env[n])
Sends(cyc) == cyc.status_sends + cyc.error_sends

\* C1: with a credential empty or absent, main leaves its start only by
\* exiting with a non-zero status, and get_api_answer, bot.send_message and
\* time.sleep are never called; with all three set, main enters the loop and
\* does not exit.
C1_Startup ==
    /\ SomeCredentialMissing =>
          /\ pc \in {"start", "exited"}
          /\ pc = "exited" => exit_code > 0
          /\ NoCalls
    /\ ~SomeCredentialMissing =>
          /\ pc \in {"start", "loop", "sleep"}
          /\ exit_code = -1

C1_Witness ==
    /\ pc = "exited"
    /\ env["PRACTICUM_TOKEN"] = Some("secret")
    /\ env["TELEGRAM_TOKEN"] = Some("secret")
    /\ env["TELEGRAM_CHAT_ID"] = Some("")

\* C2, as claimed: two consecutive cycles that get the same response with a
\* valid first record make one bot.send_message call between them.
C2_OneSendForSameResponse ==
    (CycleDone /\ hist.cur.same_response) =>
        Sends(hist.prev) + Sends(hist.cur) = 1

\* C2, amended: two consecutive cycles that get the same response with a
\* valid first record each call bot.send_message once with the status message
\* (two calls in all, no error message): nothing suppresses the second.
C2_EachCycleSendsStatus ==
    (CycleDone /\ hist.cur.same_response) =>
        /\ hist.prev.status_sends = 1 /\ hist.prev.error_sends = 0
        /\ hist.cur.status_sends = 1 /\ hist.cur.error_sends = 0

C2_Witness ==
    /\ CycleDone
    /\ hist.cur.same_response
    /\ hist.cur.status_bot = "ok"
    /\ Len(hist.cur.status_response.homeworks.items) = 1

\* C3, as claimed: two consecutive cycles that raise with the same error
\* message make exactly one bot.send_message call between them, none of it
\* in the second.
C3_OneSendForSameError ==
    (CycleDone /\ hist.cur.same_error) =>
        /\ Sends(hist.prev) + Sends(hist.cur) = 1
        /\ Sends(hist.cur) = 0

\* C3, amended: of two consecutive cycles that raise with the same error
\* message the second calls bot.send_message not at all, and the first calls
\* it once if its message differs from the last reported error and not at all
\* if it equals it: at most one call between them.
C3_SecondSuppressedFirstIfNew ==
    (CycleDone /\ hist.cur.same_error) =>
        /\ Sends(hist.cur) = 0
        /\ hist.prev.status_sends = 0
        /\ hist.prev.error_sends = IF hist.prev.err_was_last THEN 0 ELSE 1

C3_Witness ==
    /\ CycleDone
    /\ hist.cur.same_error
    /\ hist.prev.error_sends = 1
    /\ Sends(hist.cur) = 0

StatusDeliveryFailed == hist.cur.status_bot \in CaughtBotErrors
ErrorDeliveryFailed == hist.cur.error_bot \in CaughtBotErrors
DeliveryFailed == StatusDeliveryFailed \/ ErrorDeliveryFailed

\* C4: when the bot fails with an API error or a network error, nothing
\* propagates from send_message: main is not left, a failed status send does
\* not reach the except clause (no error message follows it), and the cycle
\* ends at its sleep, from where the only step is to the top of the loop.
C4_DeliveryFailureIsolated ==
    /\ [](DeliveryFailed =>
            /\ Running
            /\ StatusDeliveryFailed =>
                  ~hist.cur.raised /\ hist.cur.error_sends = 0)
    /\ [][DeliveryFailed' =>
            \/ pc = "loop" /\ pc' = "sleep"
            \/ pc = "sleep" /\ pc' = "loop" /\ hist'.sleeps = 1]_vars

C4_Witness ==
    /\ pc = "loop"
    /\ hist.cur.error_bot = "RequestException"
    /\ hist.sleeps = 1

\* C5: once main is in its loop it stays there: the only step that ends the
\* process is the start with a credential missing; whatever the cycles did,
\* the sleep is followed by the top of the loop and the top of the loop by
\* another cycle (another get_api_answer call).
C5_LoopNeverEnds ==
    /\ [][(pc' # pc /\ pc' \notin {"loop", "sleep"}) =>
            (pc = "start" /\ SomeCredentialMissing)]_vars
    /\ (pc = "sleep") ~> (pc = "loop")
    /\ (pc = "loop") ~> (pc = "sleep" /\ hist.sleeps = 0)

C5_Witness ==
    /\ pc = "loop"
    /\ hist.cur.raised
    /\ hist.cur.input = "invalid"
    /\ hist.sleeps = 1

\* C6: whenever main is about to call get_api_answer after an earlier call,
\* exactly one sleep, of RETRY_PERIOD, lies between the two calls; and
\* whatever the cycle did, it ends at the sleep.
C6_OneSleepPerCycle ==
    /\ (pc = "loop" /\ hist.ever_fetch) =>
          hist.sleeps = 1 /\ hist.slept_for = RETRY_PERIOD
    /\ hist.ever_fetch => Running
    /\ CycleDone => hist.sleeps = 0

C6_Witness ==
    /\ pc = "loop"
    /\ hist.cur.raised
    /\ hist.sleeps = 1
    /\ hist.slept_for = RETRY_PERIOD

\* C7, as claimed: the watermark main is about to pass to get_api_answer is
\* never smaller than the one it passed in the cycle before.
C7_WatermarkNeverDecreases ==
    (pc = "loop" /\ hist.ever_fetch) =>
        current_timestamp >= hist.cur.from_date

HadPayload == hist.cur.input \in {"empty", "status"}
HasCurrentDate == hist.cur.current_date # -1

\* C8, as claimed: after a cycle whose fetch, validation and formatting
\* raised nothing, the watermark is the payload's "current_date" if it has
\* one, and is unchanged otherwise.
C8_WatermarkIsCurrentDate ==
    (CycleDone /\ HadPayload) =>
        current_timestamp = IF HasCurrentDate THEN hist.cur.current_date
                            ELSE hist.cur.from_date

\* C8, amended: after a cycle whose fetch, validation and formatting raised
\* nothing, the watermark is the payload's "current_date" if it has one and
\* the status message was sent with success (so the list was not empty), and
\* is unchanged otherwise.
C8_WatermarkAdvancesOnDelivery ==
    (CycleDone /\ HadPayload) =>
        current_timestamp =
            IF HasCurrentDate /\ hist.cur.status_bot = "ok"
            THEN hist.cur.current_date ELSE hist.cur.from_date

C8_Witness ==
    /\ CycleDone
    /\ hist.cur.input = "status"
    /\ hist.cur.status_bot = "ok"
    /\ hist.cur.current_date = 1
    /\ hist.cur.from_date = 0
    /\ current_timestamp = 1

Raises(result, type) == result.raised /\ result.type = type

\* C9: check_response raises TypeError for a payload that is no dict,
\* KeyError for a dict without "homeworks", TypeError for a "homeworks" that
\* is no list, and otherwise returns the list as it is, the empty list too.
C9_CheckResponse ==
    fn_name = "check_response" =>
        IF fn_payload.ty # "dict" THEN Raises(fn_result, "TypeError")
        ELSE IF "homeworks" \notin fn_payload.keys
        THEN Raises(fn_result, "KeyError")
        ELSE IF fn_payload.homeworks.ty # "list"
        THEN Raises(fn_result, "TypeError")
        ELSE fn_result = Return(fn_payload.homeworks.items)

C9_Witness ==
    /\ fn_name = "check_response"
    /\ fn_payload.ty = "dict"
    /\ fn_payload.homeworks = ListField(<<>>)
    /\ fn_result = Return(<<>>)

\* C10: parse_status raises KeyError for every record without
\* "homework_name", whatever its "status" is, and if it has one.
C10_MissingNameIsKeyError ==
    (/\ fn_name = "parse_status"
     /\ fn_homework.ty = "dict"
     /\ "homework_name" \notin fn_homework.keys) =>
        Raises(fn_result, "KeyError")

C10_Witness ==
    /\ fn_name = "parse_status"
    /\ fn_homework = Homework({"status"}, "", "approved")
    /\ Raises(fn_result, "KeyError")

ParsedRecord ==
    /\ fn_name = "parse_status"
    /\ fn_homework.ty = "dict"
    /\ "homework_name" \in fn_homework.keys
KnownStatuses == {"approved", "reviewing", "rejected"}

\* C11: for a record with a name, parse_status raises ValueError with the
\* status in its message when the status is none of approved, reviewing and
\* rejected, and otherwise returns the text made of the record's name and the
\* verdict of its status.
C11_ParseStatus ==
    (ParsedRecord /\ "status" \in fn_homework.keys) =>
        IF fn_homework.status \notin KnownStatuses
        THEN /\ Raises(fn_result, "ValueError")
             /\ fn_result.msg =
                    "Neizvestnyi status raboty: " \o fn_homework.status
        ELSE fn_result =
                Return("Izmenilsya status proverki raboty \""
                       \o fn_homework.homework_name \o "\". "
                       \o HOMEWORK_VERDICTS[fn_homework.status])

C11_Witness ==
    /\ ParsedRecord
    /\ fn_homework.status = "unknown_status"
    /\ Raises(fn_result, "ValueError")

MissingStatus == ParsedRecord /\ "status" \notin fn_homework.keys

\* C12, as claimed: a record with a name and no "status" gets the ValueError
\* of an unknown status from parse_status, not a missing-key error.
C12_MissingStatusIsUnknown ==
    MissingStatus => Raises(fn_result, "ValueError")

\* C12: a record with a name and no "status" gets a KeyError naming the
\* missing key from parse_status, an error of another kind than the
\* ValueError of an unknown status.
C12_MissingStatusIsKeyError ==
    MissingStatus =>
        /\ Raises(fn_result, "KeyError")
        /\ fn_result.msg = "Kluch \"status\" otsutstvuet v otvete API"

C12_Witness ==
    /\ MissingStatus
    /\ fn_homework = Homework({"homework_name"}, "hw1", "")
    /\ Raises(fn_result, "KeyError")

\* A cycle has run, and no later one has begun: main is at its sleep or back
\* at the top of the loop.
AfterCycle == Running /\ hist.cur.input # "none"
FirstCycleDone == CycleDone /\ ~hist.ever_sleep
UnknownStatusError ==
    Some(ErrorMessage(Raise("ValueError",
                            "Neizvestnyi status raboty: unknown_status")))

\* C13: after a cycle whose fetch, validation or formatting raised, the
\* watermark is the one the cycle fetched with, up to the next fetch; and when
\* the first cycle gets a payload whose first record has an unknown status, it
\* raises the unknown-status error, calls bot.send_message once, with the
\* error message, and leaves the watermark as it was.
C13_RaisingCycleKeepsWatermark ==
    /\ (AfterCycle /\ ~HadPayload) =>
            /\ hist.cur.raised
            /\ current_timestamp = hist.cur.from_date
    /\ (FirstCycleDone /\ hist.cur.unknown_status) =>
            /\ hist.cur.raised
            /\ hist.cur.err = UnknownStatusError
            /\ hist.cur.error_sends = 1
            /\ hist.cur.status_sends = 0
            /\ current_timestamp = hist.cur.from_date

C13_Witness ==
    /\ FirstCycleDone
    /\ hist.cur.unknown_status
    /\ hist.cur.error_sends = 1
    /\ current_timestamp = hist.cur.from_date

\* C14: a cycle whose validated list is empty raises nothing and makes no call
\* of bot.send_message, and when its payload has no "current_date" the
\* watermark is the one the cycle fetched with.
C14_EmptyListSendsNothing ==
    (AfterCycle /\ hist.cur.input = "empty") =>
        /\ ~hist.cur.raised
        /\ Sends(hist.cur) = 0
        /\ ~HasCurrentDate => current_timestamp = hist.cur.from_date

C14_Witness ==
    /\ CycleDone
    /\ hist.cur.input = "empty"
    /\ ~HasCurrentDate
    /\ Sends(hist.cur) = 0
    /\ current_timestamp = hist.cur.from_date

\* C15, as claimed: every cycle that raises calls logging.error with its error
\* message, also when the message is the last_error it began with.
C15_EveryRaiseIsLogged ==
    (AfterCycle /\ hist.cur.raised) => hist.cur.logged

StatusDelivered == hist.cur.status_bot = "ok"

\* C16, as claimed: once last_error is set, no cycle of the loop sets it back
\* to None.
C16_LastErrorNeverReset ==
    [][(Running /\ last_error # None) => last_error' # None]_vars

\* C16: last_error is None at the start of the loop, and a cycle sets it back
\* to None exactly when it delivers a status message; an error message equal
\* to the one before a delivered status message is therefore sent again.
C16_LastErrorResetOnDelivery ==
    /\ [](CycleDone /\ StatusDelivered => last_error = None)
    /\ [](CycleDone /\ hist.cur.had_error /\ last_error = None
            => StatusDelivered)
    /\ [][(Running /\ last_error # None /\ last_error' = None)
            => (hist.cur' # hist.cur /\ hist.cur'.status_bot = "ok")]_vars

C16_Witness ==
    /\ CycleDone
    /\ StatusDelivered
    /\ hist.cur.had_error
    /\ last_error = None

CycleStep == pc = "loop" /\ pc' = "sleep"

\* C17: the watermark changes only in a cycle that delivers a status message;
\* a cycle whose status message the bot fails to deliver raises nothing, sends
\* no error message and leaves the watermark and last_error as they were, so
\* that the next fetch passes the same from_date.
C17_WatermarkGatedByDelivery ==
    /\ [][(Running /\ current_timestamp' # current_timestamp)
            => (CycleStep /\ hist.cur'.status_bot = "ok")]_vars
    /\ [][(CycleStep /\ hist.cur'.status_bot \in CaughtBotErrors)
            => /\ current_timestamp' = current_timestamp
               /\ last_error' = last_error
               /\ ~hist.cur'.raised
               /\ hist.cur'.error_sends = 0]_vars
    /\ []((AfterCycle /\ StatusDeliveryFailed)
            => current_timestamp = hist.cur.from_date)

C17_Witness ==
    /\ CycleDone
    /\ StatusDeliveryFailed
    /\ HasCurrentDate
    /\ hist.cur.current_date # hist.cur.from_date
    /\ current_timestamp = hist.cur.from_date
    /\ hist.cur.had_error
    /\ last_error # None
    /\ hist.cur.error_sends = 0

\* C18: after a cycle that raised, last_error is the cycle's error message,
\* whether the bot delivered it or not; a cycle that raises with the last_error
\* it began with sends nothing, so an error message the bot failed to deliver
\* is not sent again by the next cycle that raises the same.
C18_UndeliveredErrorIsRemembered ==
    /\ (AfterCycle /\ hist.cur.raised) => last_error = hist.cur.err
    /\ (AfterCycle /\ hist.cur.raised /\ hist.cur.err_was_last) =>
            Sends(hist.cur) = 0
    /\ (AfterCycle /\ hist.cur.same_error
                   /\ hist.cur.after = "error undelivered") =>
            /\ hist.cur.err_was_last
            /\ Sends(hist.cur) = 0

C18_Witness ==
    /\ CycleDone
    /\ hist.cur.same_error
    /\ hist.cur.after = "error undelivered"
    /\ Sends(hist.cur) = 0
    /\ last_error = hist.cur.err

\* C19: a cycle with an empty list leaves last_error as it was, so a cycle
\* that raises after it with the last_error from before sends nothing; a cycle
\* that raises after a delivered status message sends its error message,
\* whatever was reported before.
C19_EmptyKeepsDeliveryResets ==
    /\ [][(CycleStep /\ hist.cur'.input = "empty")
            => last_error' = last_error]_vars
    /\ []((AfterCycle /\ hist.cur.raised /\ hist.cur.err_was_last
                      /\ hist.cur.after = "nothing to send")
            => Sends(hist.cur) = 0)
    /\ []((AfterCycle /\ hist.cur.raised
                      /\ hist.cur.after = "status delivered")
            => /\ ~hist.cur.had_error
               /\ hist.cur.error_sends = 1)

C19_Witness ==
    /\ CycleDone
    /\ hist.cur.raised
    /\ hist.cur.had_error
    /\ hist.cur.err_was_last
    /\ hist.cur.after = "nothing to send"
    /\ Sends(hist.cur) = 0

\* C20: with a bot that fails only in the ways send_message catches, a cycle
\* calls bot.send_message at most once: never for a status message and an
\* error message both.
C20_AtMostOneSend ==
    AfterCycle =>
        /\ Sends(hist.cur) <= 1
        /\ ~(hist.cur.status_sends > 0 /\ hist.cur.error_sends > 0)

C20_Witness ==
    /\ CycleDone
    /\ StatusDeliveryFailed
    /\ hist.cur.status_sends = 1
    /\ hist.cur.error_sends = 0

=============================================================================
